---- MODULE Spec2Model ----
(***************************************************************************)
(* Model of the Ganga job-output helpers of src/ganga/.ganga.py.           *)
(*                                                                         *)
(* The library is a set of synchronous functions over a Job owned by the   *)
(* Ganga runtime.  Each function is one action: the action computes the    *)
(* whole call (its loops included) and records what the call did: the      *)
(* backend calls it made, in order (calls), what it printed (stdout), how  *)
(* it ended (result, exc, retval), and its effect on the local filesystem  *)
(* (dirs, fname).  A backend call that raises is an input of the action    *)
(* (failAt: the position of the raising call, 0 for none).                 *)
(*                                                                         *)
(* Strings the code builds (LFNs, URLs, file names, lines) are sequences   *)
(* of string tokens, so that concatenation and endswith are computed.      *)
(***************************************************************************)
EXTENDS Integers, Sequences, FiniteSets

VARIABLES job, dirs, fname, op, calls, stdout, result, exc, retval, fetched

vars == <<job, dirs, fname, op, calls, stdout, result, exc, retval, fetched>>

(***************************************************************************)
(* Bounds of the model.                                                    *)
(***************************************************************************)
\* at most this many subjobs in a job
MaxSubjobs == 2
\* at most this many output files in a job altogether
MaxFiles == 2

(***************************************************************************)
(* The framework's objects (spec section 3), as the library reads them.    *)
(***************************************************************************)
Statuses == {"completed", "failed", "running"}

JobId == 7

\* decimal digits of the small integers used in names
Digit == <<"0", "1", "2", "3", "4", "5", "6", "7", "8", "9">>

Str(n) == Digit[n + 1]

NL == "\n"

\* a file attribute kind: has an LFN, is a .root file, is at CERN-USER,
\* has an obtainable access URL
Kind(l, r, c, u) == [lfn |-> l, root |-> r, cern |-> c, url |-> u]

\* the DiracFile number k of unit u (u = 0 for the job itself or subjob 0)
DiracFile(u, k, kind) ==
    [ namePattern |-> <<"out", Str(u), Str(k), IF kind.root THEN ".root" ELSE ".txt">>,
      lfn         |-> IF kind.lfn THEN <<"/lhcb/user/", Str(u), Str(k)>> ELSE <<>>,
      locations   |-> IF kind.cern THEN {"CERN-USER", "RAL-USER"} ELSE {"RAL-USER"},
      pfn         |-> IF kind.url THEN <<"root://", Str(u), Str(k)>> ELSE <<>> ]

\* all sequences of n files of unit u with kinds from K
RECURSIVE FileSeqs(_, _, _)
FileSeqs(u, n, K) ==
    IF n = 0 THEN {<<>>}
    ELSE {Append(fs, DiracFile(u, n, kind)) : fs \in FileSeqs(u, n - 1, K), kind \in K}

\* all sequences of subjobs number i..s (ids i-1..s-1) holding at most
\* budget files altogether
RECURSIVE SubjobSeqs(_, _, _, _)
SubjobSeqs(i, s, budget, K) ==
    IF i > s THEN {<<>>}
    ELSE UNION { UNION { { <<[id |-> i - 1, status |-> st, outputfiles |-> fs]>> \o rest :
                             rest \in SubjobSeqs(i + 1, s, budget - n, K) } :
                           st \in Statuses, fs \in FileSeqs(i - 1, n, K) } :
                 n \in 0..budget }

\* job.subjobs is a registry slice (it has select); a Python list has none
Slice(items) == [type |-> "slice", items |-> items]

List(items) == [type |-> "list", items |-> items]

\* a job without subjobs carries its own status and output files; a master
\* job's work is in its subjobs
Jobs(K) ==
    UNION { { [id |-> JobId, status |-> st, subjobs |-> Slice(<<>>), outputfiles |-> fs] :
                st \in Statuses, fs \in FileSeqs(0, n, K) } : n \in 0..MaxFiles }
    \cup
    UNION { { [id |-> JobId, status |-> "running", subjobs |-> Slice(sjs), outputfiles |-> <<>>] :
                sjs \in SubjobSeqs(1, s, MaxFiles, K) } : s \in 1..MaxSubjobs }

(***************************************************************************)
(* Python helpers.                                                         *)
(***************************************************************************)
\* truth value of a sequence or slice: non-empty
Truthy(s) == s # <<>>

RECURSIVE Flatten(_)
Flatten(ss) == IF ss = <<>> THEN <<>> ELSE Head(ss) \o Flatten(Tail(ss))

Map(f(_), s) == [i \in 1..Len(s) |-> f(s[i])]

Range(s) == {s[i] : i \in 1..Len(s)}

\* slice.select(status=...): the matching subjobs, in order
select(coll, status) ==
    Slice(SelectSeq(coll.items, LAMBDA sj : sj.status = status))

\* a Python list has no attribute select
has_select(coll) == coll.type = "slice"

\* str.endswith
endswith(s, suffix) == Len(s) > 0 /\ s[Len(s)] = suffix

\* an outcome of a call: what it did and how it ended
Outcome(c, out, res, e, rv, f, d) ==
    [calls |-> c, stdout |-> out, result |-> res, exc |-> e, retval |-> rv,
     fname |-> f, dirs |-> d]

\* the exception of a delegated call swallowed, the batch carried on
Delegate_carry_on(plan, failAt) ==
    [calls |-> plan, result |-> "returned", exc |-> "none"]

\* the delegated calls of plan are made in order; the failAt-th raises and
\* the exception propagates
Delegate(plan, failAt) ==
    IF failAt = 0 \/ failAt > Len(plan)
    THEN [calls |-> plan, result |-> "returned", exc |-> "none"]
    ELSE [calls |-> SubSeq(plan, 1, failAt), result |-> "raised", exc |-> "BackendError"]

(***************************************************************************)
(* get_subjobs                                                             *)
(***************************************************************************)
\* get_subjobs without the fallback to the job itself
get_subjobs_no_fallback(j) == j.subjobs

get_subjobs(j) ==
    IF ~Truthy(j.subjobs.items) THEN List(<<j>>) ELSE j.subjobs

(***************************************************************************)
(* What the calls record.                                                  *)
(***************************************************************************)
\* a delegated call: the operation, the object it is invoked on (a file's
\* namePattern, or a subjob), its argument
Call(o, on, arg) == [op |-> o, on |-> on, arg |-> arg]

SubjobRef(sj) == <<"subjob", Str(sj.id)>>

\* a printed line
Line(text, args) == [text |-> text, args |-> args]

AttributeError(f, d) ==
    Outcome(<<>>, <<>>, "raised", "AttributeError", <<>>, f, d)

(***************************************************************************)
(* delete_lfns                                                             *)
(***************************************************************************)
\* the LFN check left out
has_lfn_unchecked(df) == TRUE

has_lfn(df) == Truthy(df.lfn)

is_completed(x) == x.status = "completed"

\* every subjob that is not completed taken for failed
is_failed_not_completed(sj) == sj.status # "completed"

is_failed(sj) == sj.status = "failed"

delete_outputs(j) ==
    IF Truthy(j.subjobs.items)
    THEN Map(LAMBDA sj : sj.outputfiles, SelectSeq(j.subjobs.items, is_completed))
    ELSE IF is_completed(j) THEN <<j.outputfiles>> ELSE <<>>

delete_lfns(j, failAt, f, d) ==
    LET plan == Flatten(Map(LAMBDA output :
                     Map(LAMBDA df : Call("remove", df.namePattern, <<>>),
                         SelectSeq(output, has_lfn)),
                   delete_outputs(j)))
        run == Delegate(plan, failAt)
    IN  Outcome(run.calls, <<Line("Deleting LFNs of job", <<Str(j.id)>>)>>,
                run.result, run.exc, <<>>, f, d)

(***************************************************************************)
(* print_incomplete, resubmit_failed, reset_failed                         *)
(***************************************************************************)
print_incomplete(j, f, d) ==
    Outcome(<<>>,
            Map(LAMBDA sj : Line("", <<Str(sj.id), sj.status>>),
                SelectSeq(j.subjobs.items, LAMBDA sj : ~is_completed(sj))),
            "returned", "none", <<>>, f, d)

\* the units resubmit_failed and reset_failed iterate over
failed_units(j) == SelectSeq(j.subjobs.items, is_failed)

\* for every failed unit: print, then the delegated call
on_failed(j, text, o, failAt, f, d) ==
    LET todo == failed_units(j)
        run == Delegate(Map(LAMBDA sj : Call(o, SubjobRef(sj), <<>>), todo), failAt)
    IN  Outcome(run.calls,
                Map(LAMBDA sj : Line(text, <<Str(sj.id)>>), SubSeq(todo, 1, Len(run.calls))),
                run.result, run.exc, <<>>, f, d)

resubmit_failed(j, failAt, f, d) ==
    on_failed(j, "Resubmitting subjob", "resubmit", failAt, f, d)

reset_failed(j, failAt, f, d) ==
    on_failed(j, "Resetting subjob", "backend.reset", failAt, f, d)

(***************************************************************************)
(* replicate_to_cern                                                       *)
(***************************************************************************)
\* the output files of the completed units of a slice, in iteration order
completed_files(coll) ==
    Flatten(Map(LAMBDA sj : sj.outputfiles, select(coll, "completed").items))

at_cern(df) == "CERN-USER" \in df.locations

replicate_to_cern(j, failAt, f, d) ==
    LET coll == get_subjobs(j) IN
    IF ~has_select(coll) THEN AttributeError(f, d)
    ELSE LET plan == Map(LAMBDA df : Call("replicate", df.namePattern, <<"CERN-USER">>),
                         SelectSeq(completed_files(coll), LAMBDA df : ~at_cern(df)))
             run == Delegate(plan, failAt)
         IN  Outcome(run.calls, <<>>, run.result, run.exc, <<>>, f, d)

(***************************************************************************)
(* write_lfns, write_access_urls                                           *)
(***************************************************************************)
\* f.writelines(s + '\n' for s in strings) on a file opened with 'w'
writelines(strings) == Flatten(Map(LAMBDA s : s \o <<NL>>, strings))

write_lfns(j, cern_only, f, d) ==
    LET coll == get_subjobs(j) IN
    IF ~has_select(coll) THEN AttributeError(f, d)
    ELSE LET lfns == Map(LAMBDA df : df.lfn,
                         SelectSeq(completed_files(coll),
                                   LAMBDA df : at_cern(df) \/ ~cern_only))
         IN  Outcome(<<>>, <<>>, "returned", "none", <<>>, writelines(lfns), d)

\* DiracFile.accessURL(): the list of the file's URLs, or KeyError
accessURL_raises(df) == ~Truthy(df.pfn)

accessURL(df) == <<df.pfn>>

\* the first position from i on of a file whose accessURL raises, or 0
RECURSIVE FirstRaising(_, _)
FirstRaising(dfs, i) ==
    IF i > Len(dfs) THEN 0
    ELSE IF accessURL_raises(dfs[i]) THEN i ELSE FirstRaising(dfs, i + 1)

write_access_urls(j, f, d) ==
    LET coll == get_subjobs(j) IN
    IF ~has_select(coll) THEN AttributeError(f, d)
    ELSE LET dfs == completed_files(coll)
             bad == FirstRaising(dfs, 1)
             asked == IF bad = 0 THEN dfs ELSE SubSeq(dfs, 1, bad)
             log == Map(LAMBDA df : Call("accessURL", df.namePattern, <<>>), asked)
         IN  IF bad # 0
             THEN Outcome(log, <<>>, "raised", "KeyError", <<>>, f, d)
             ELSE Outcome(log, <<>>, "returned", "none", <<>>,
                          writelines(Flatten(Map(accessURL, dfs))), d)

(***************************************************************************)
(* access_urls, print_status                                               *)
(***************************************************************************)
diracfile_root_matcher(df) == endswith(df.namePattern, ".root")

\* the matcher argument: None (download_lfns' default, accept all), the
\* .root matcher (access_urls' default), or a caller's own predicate
Matchers == {"None", "diracfile_root_matcher", "txt_matcher"}

Matches(matcher, df) ==
    CASE matcher = "None" -> TRUE
      [] matcher = "diracfile_root_matcher" -> diracfile_root_matcher(df)
      [] OTHER -> endswith(df.namePattern, ".txt")

\* the (subjob id, file) pairs of the nested loops, in iteration order
Pairs(units) ==
    Flatten(Map(LAMBDA u : Map(LAMBDA df : [jid |-> u.id, df |-> df], u.outputfiles),
                units))

\* try: urls.append(df.accessURL()); except KeyError: print(...)
url_caught(x) == accessURL_raises(x.df)

access_urls(j, matcher, f, d) ==
    LET coll == get_subjobs(j) IN
    IF ~has_select(coll) THEN AttributeError(f, d)
    ELSE LET todo == SelectSeq(Pairs(select(coll, "completed").items),
                               LAMBDA x : Matches(matcher, x.df))
         IN  Outcome(Map(LAMBDA x : Call("accessURL", x.df.namePattern, <<>>), todo),
                     Map(LAMBDA x : Line("Could not get accessURL for", <<Str(x.jid)>>),
                         SelectSeq(todo, url_caught)),
                     "returned", "none",
                     Map(LAMBDA x : accessURL(x.df),
                         SelectSeq(todo, LAMBDA x : ~url_caught(x))),
                     f, d)

\* status_dict: the number of units per status
status_dict(units) ==
    [st \in {u.status : u \in Range(units)} |->
        Cardinality({i \in 1..Len(units) : units[i].status = st})]

\* the dictionary's items are printed in the order the dictionary yields them
print_status(j, order, f, d) ==
    LET sd == status_dict(get_subjobs(j).items)
    IN  Outcome(<<>>,
                Map(LAMBDA st : Line("{0}: {1}", <<st, Str(sd[st])>>), order),
                "returned", "none", <<>>, f, d)

\* the orders in which a dictionary with these keys can be iterated
Orders(keys) ==
    {s \in [1..Cardinality(keys) -> keys] : \A i, k \in DOMAIN s : i # k => s[i] # s[k]}

(***************************************************************************)
(* download_lfns                                                           *)
(***************************************************************************)
Path == <<"/afs/cern.ch/work/a/apearce/Ganga">>

\* os.path.join(path, str(job.id), str(jid))
os_path_join(path, a, b) == path \o <<"/", a, "/", b>>

\* makedirs that tolerates an existing directory (exist_ok)
makedirs_exist_ok(local, d) == FALSE

\* os.makedirs(local) raises OSError when local exists
makedirs_raises(local, d) == local \in d

\* the directory not created before the fetch
makedirs_skipped(local, d) == d

\* os.makedirs(local) creates local and its missing parents
makedirs(local, d) ==
    d \cup {SubSeq(local, 1, n) : n \in {Len(local) - 4, Len(local) - 2, Len(local)}}

\* the Ganga versions the code tells apart
Versions == {"6-0", "6-1"}

\* the two ways of fetching into local (lines 74-78), by Ganga version
get_call(df, local, version) ==
    IF version = "6-0"
    THEN Call("get", df.namePattern, [localDir |-> local, localPath |-> <<>>])
    ELSE Call("get", df.namePattern, [localDir |-> <<>>, localPath |-> local])

\* where a get call downloads to
Dest(c) == IF Truthy(c.arg.localPath) THEN c.arg.localPath ELSE c.arg.localDir

download_outputs(j) ==
    IF Truthy(j.subjobs.items)
    THEN Map(LAMBDA sj : [id |-> sj.id, outputfiles |-> sj.outputfiles],
             SelectSeq(j.subjobs.items, is_completed))
    ELSE IF is_completed(j) THEN <<[id |-> 0, outputfiles |-> j.outputfiles]>> ELSE <<>>

\* the loop of lines 45-78 over the (jid, df) pairs still to do
RECURSIVE download_loop(_, _, _, _, _, _, _, _, _)
download_loop(todo, j, path, matcher, version, failAt, c, out, d) ==
    IF todo = <<>> THEN [calls |-> c, stdout |-> out, result |-> "returned",
                         exc |-> "none", dirs |-> d]
    ELSE LET jid == Head(todo).jid
             df == Head(todo).df
             local == os_path_join(path, Str(j.id), Str(jid))
             next(c2, out2, d2) ==
                 download_loop(Tail(todo), j, path, matcher, version, failAt, c2, out2, d2)
         IN  IF ~has_lfn(df)
             THEN next(c, out \o <<Line("Skipping job {0} subjob {1}", <<Str(j.id), Str(jid)>>),
                                  Line("No output data LFN", <<>>)>>, d)
             ELSE IF ~Matches(matcher, df)
             THEN next(c, out \o <<Line("Skipping job {0} subjob {1} file {2}",
                                       <<Str(j.id), Str(jid)>> \o df.lfn),
                                  Line("Not matched by matcher method", <<>>)>>, d)
             ELSE IF makedirs_raises(local, d)
             THEN next(c, out \o <<Line("Skipping job {0} subjob {1}", <<Str(j.id), Str(jid)>>),
                                  Line("Directory exists: {0}", local)>>, d)
             ELSE LET c2 == Append(c, get_call(df, local, version))
                      d2 == makedirs(local, d)
                  IN  IF Len(c2) = failAt
                      THEN [calls |-> c2, stdout |-> out, result |-> "raised",
                            exc |-> "BackendError", dirs |-> d2]
                      ELSE next(c2, out, d2)

download_lfns(j, path, matcher, version, failAt, f, d) ==
    LET outputs == download_outputs(j)
        head == <<Line("Downloading LFNs to {0}/{1}", path \o <<Str(j.id)>>)>>
                \o IF Truthy(j.subjobs.items)
                   THEN <<Line("Will download {0}/{1} subjobs",
                               <<Str(Len(outputs)), Str(Len(j.subjobs.items))>>)>>
                   ELSE <<>>
        run == download_loop(Pairs(outputs), j, path, matcher,
                             version, failAt, <<>>, head, d)
    IN  Outcome(run.calls, run.stdout, run.result, run.exc, <<>>, f, run.dirs)

(***************************************************************************)
(* The state machine: one action per library function.                     *)
(***************************************************************************)
\* the destination directories of the job's units
Locals == {os_path_join(Path, Str(JobId), Str(i)) : i \in 0..(MaxSubjobs - 1)}

\* the content of the file at fname before the library writes it
OldContent == <<"old", NL>>

\* the invocation: the function, its arguments, the position of the raising
\* backend call, and the filesystem it started from
Op(name, matcher, cern_only, version, order, failAt) ==
    [name |-> name, matcher |-> matcher, cern_only |-> cern_only, version |-> version,
     order |-> order, failAt |-> failAt, dirs |-> dirs, fname |-> fname]

Plain(name, failAt) == Op(name, "None", TRUE, "6-1", <<>>, failAt)

\* the number of get calls of an invocation into local
Gets(c, local) == Cardinality({i \in 1..Len(c) : c[i].op = "get" /\ Dest(c[i]) = local})

InitWith(K) ==
    /\ job \in Jobs(K)
    /\ dirs = {}
    /\ fname = OldContent
    /\ op = Plain("none", 0)
    /\ calls = <<>>
    /\ stdout = <<>>
    /\ result = "none"
    /\ exc = "none"
    /\ retval = <<>>
    /\ fetched = [l \in Locals |-> 0]

\* the call o has been made: the state records it
Done(o) ==
    /\ calls' = o.calls
    /\ stdout' = o.stdout
    /\ result' = o.result
    /\ exc' = o.exc
    /\ retval' = o.retval
    /\ fname' = o.fname
    /\ dirs' = o.dirs
    /\ fetched' = [l \in Locals |-> fetched[l] + Gets(o.calls, l)]
    /\ UNCHANGED job

\* the positions at which a delegated call of the invocation can raise
FailPoints(o) == 0..Len(o.calls)

GetSubjobs ==
    /\ op' = Plain("get_subjobs", 0)
    /\ Done(Outcome(<<>>, <<>>, "returned", "none", get_subjobs(job), fname, dirs))

DeleteLfns ==
    \E failAt \in FailPoints(delete_lfns(job, 0, fname, dirs)) :
        /\ op' = Plain("delete_lfns", failAt)
        /\ Done(delete_lfns(job, failAt, fname, dirs))

PrintIncomplete ==
    /\ op' = Plain("print_incomplete", 0)
    /\ Done(print_incomplete(job, fname, dirs))

ResubmitFailed ==
    \E failAt \in FailPoints(resubmit_failed(job, 0, fname, dirs)) :
        /\ op' = Plain("resubmit_failed", failAt)
        /\ Done(resubmit_failed(job, failAt, fname, dirs))

ResetFailed ==
    \E failAt \in FailPoints(reset_failed(job, 0, fname, dirs)) :
        /\ op' = Plain("reset_failed", failAt)
        /\ Done(reset_failed(job, failAt, fname, dirs))

ReplicateToCern ==
    \E failAt \in FailPoints(replicate_to_cern(job, 0, fname, dirs)) :
        /\ op' = Plain("replicate_to_cern", failAt)
        /\ Done(replicate_to_cern(job, failAt, fname, dirs))

PrintStatus ==
    \E order \in Orders(DOMAIN status_dict(get_subjobs(job).items)) :
        /\ op' = Op("print_status", "None", TRUE, "6-1", order, 0)
        /\ Done(print_status(job, order, fname, dirs))

WriteLfns ==
    \E cern_only \in BOOLEAN :
        /\ op' = Op("write_lfns", "None", cern_only, "6-1", <<>>, 0)
        /\ Done(write_lfns(job, cern_only, fname, dirs))

WriteAccessUrls ==
    /\ op' = Plain("write_access_urls", 0)
    /\ Done(write_access_urls(job, fname, dirs))

AccessUrls ==
    \E matcher \in Matchers \ {"None"} :
        /\ op' = Op("access_urls", matcher, TRUE, "6-1", <<>>, 0)
        /\ Done(access_urls(job, matcher, fname, dirs))

DownloadLfns ==
    \E matcher \in Matchers \ {"txt_matcher"}, version \in Versions :
        \E failAt \in FailPoints(download_lfns(job, Path, matcher, version, 0, fname, dirs)) :
            /\ op' = Op("download_lfns", matcher, TRUE, version, <<>>, failAt)
            /\ Done(download_lfns(job, Path, matcher, version, failAt, fname, dirs))

\* the user deletes the directory of a subjob ("just delete the failed
\* subjobs and call this method again")
RemoveDir ==
    \E local \in Locals \cap dirs :
        /\ op' = Plain("rmdir", 0)
        /\ dirs' = dirs \ {local}
        /\ fetched' = [fetched EXCEPT ![local] = 0]
        /\ calls' = <<>>
        /\ stdout' = <<>>
        /\ result' = "none"
        /\ exc' = "none"
        /\ retval' = <<>>
        /\ UNCHANGED <<job, fname>>

\* the file kinds of each specification: the attributes its functions read
KindsLfn == {Kind(FALSE, TRUE, FALSE, FALSE), Kind(TRUE, TRUE, FALSE, TRUE),
             Kind(TRUE, TRUE, TRUE, TRUE)}

KindsUrl == {Kind(TRUE, TRUE, TRUE, TRUE), Kind(TRUE, FALSE, TRUE, TRUE),
             Kind(TRUE, TRUE, TRUE, FALSE), Kind(TRUE, FALSE, TRUE, FALSE)}

KindsDownload == {Kind(FALSE, TRUE, FALSE, FALSE), Kind(TRUE, TRUE, TRUE, TRUE),
                  Kind(TRUE, FALSE, TRUE, TRUE)}

Init == InitWith(KindsLfn)

Next ==
    \/ GetSubjobs
    \/ DeleteLfns
    \/ PrintIncomplete
    \/ ResubmitFailed
    \/ ResetFailed
    \/ ReplicateToCern
    \/ PrintStatus

Spec == Init /\ [][Next]_vars

InitWrite == InitWith(KindsLfn)

NextWrite == WriteLfns

SpecWrite == InitWrite /\ [][NextWrite]_vars

InitUrls == InitWith(KindsUrl)

NextUrls ==
    \/ AccessUrls
    \/ WriteAccessUrls

SpecUrls == InitUrls /\ [][NextUrls]_vars

InitDownload == InitWith(KindsDownload)

NextDownload ==
    \/ DownloadLfns
    \/ RemoveDir

SpecDownload == InitDownload /\ [][NextDownload]_vars

(***************************************************************************)
(* Vocabulary of the properties: the job's units of work and their files,  *)
(* stated from the data model and not from the functions above.            *)
(***************************************************************************)
\* the job has no subjobs: it is itself the unit of work
Standalone == Len(job.subjobs.items) = 0

\* the units of work: the subjobs, or the job itself as unit 0
WorkUnits ==
    IF Standalone
    THEN <<[id |-> 0, status |-> job.status, outputfiles |-> job.outputfiles]>>
    ELSE job.subjobs.items

\* every output file of every unit, in subjob-then-file order
RECURSIVE FilesFrom(_, _)
FilesFrom(u, k) ==
    IF u > Len(WorkUnits) THEN <<>>
    ELSE IF k > Len(WorkUnits[u].outputfiles) THEN FilesFrom(u + 1, 1)
    ELSE <<[jid |-> WorkUnits[u].id, status |-> WorkUnits[u].status,
            df |-> WorkUnits[u].outputfiles[k]]>> \o FilesFrom(u, k + 1)

AllFiles == FilesFrom(1, 1)

\* calls i and k of the invocation are on distinct objects whenever i # k
NoRepeat == \A i, k \in DOMAIN calls : i # k => calls[i].on # calls[k].on

\* the position of the file named n in AllFiles (0: none)
PosOf(n) ==
    IF \E i \in DOMAIN AllFiles : AllFiles[i].df.namePattern = n
    THEN CHOOSE i \in DOMAIN AllFiles : AllFiles[i].df.namePattern = n
    ELSE 0

(***************************************************************************)
(* C3: get_subjobs(job) returns the one-element sequence [job] when        *)
(* job.subjobs is empty and job.subjobs itself, same elements in the same  *)
(* order, otherwise; it never returns an empty sequence.                   *)
(***************************************************************************)
C3_GetSubjobs ==
    op.name = "get_subjobs" =>
        /\ result = "returned"
        /\ Len(job.subjobs.items) = 0 => retval.items = <<job>>
        /\ Len(job.subjobs.items) > 0 => retval = job.subjobs
        /\ Len(retval.items) > 0

C3_Witness ==
    /\ op.name = "get_subjobs"
    /\ Len(job.subjobs.items) = 2
    /\ Len(retval.items) = 2

(***************************************************************************)
(* C4: delete_lfns invokes remove exactly once on every output file that   *)
(* has an LFN and belongs to a completed unit (when it returns), and never *)
(* on a file of a unit that is not completed nor on a file without an LFN. *)
(***************************************************************************)
Removable(x) == x.status = "completed" /\ Len(x.df.lfn) > 0

C4_DeleteLfns ==
    op.name = "delete_lfns" =>
        /\ \A i \in DOMAIN calls :
              /\ calls[i].op = "remove"
              /\ PosOf(calls[i].on) # 0
              /\ Removable(AllFiles[PosOf(calls[i].on)])
        /\ NoRepeat
        /\ result = "returned" =>
              \A k \in DOMAIN AllFiles :
                  Removable(AllFiles[k]) =>
                      \E i \in DOMAIN calls : calls[i].on = AllFiles[k].df.namePattern

C4_Witness ==
    /\ op.name = "delete_lfns"
    /\ result = "returned"
    /\ Len(calls) = 1
    /\ Len(AllFiles) = 2

(***************************************************************************)
(* C7: resubmit_failed invokes resubmit exactly once, in subjob order, on  *)
(* every failed subjob and on no other subjob; reset_failed does the same  *)
(* with backend.reset; neither invokes anything on output files.           *)
(***************************************************************************)
\* the subjob a call is on (0: none)
SubjobPos(ref) ==
    IF \E i \in DOMAIN job.subjobs.items : SubjobRef(job.subjobs.items[i]) = ref
    THEN CHOOSE i \in DOMAIN job.subjobs.items : SubjobRef(job.subjobs.items[i]) = ref
    ELSE 0

C7_OnFailed ==
    op.name \in {"resubmit_failed", "reset_failed"} =>
        /\ \A i \in DOMAIN calls :
              /\ calls[i].op = IF op.name = "resubmit_failed" THEN "resubmit"
                               ELSE "backend.reset"
              /\ SubjobPos(calls[i].on) # 0
              /\ job.subjobs.items[SubjobPos(calls[i].on)].status = "failed"
        /\ \A i, k \in DOMAIN calls :
              i < k => SubjobPos(calls[i].on) < SubjobPos(calls[k].on)
        /\ result = "returned" =>
              \A n \in DOMAIN job.subjobs.items :
                  job.subjobs.items[n].status = "failed" =>
                      \E i \in DOMAIN calls : SubjobPos(calls[i].on) = n

C7_Witness ==
    /\ op.name = "reset_failed"
    /\ result = "returned"
    /\ Len(job.subjobs.items) = 2
    /\ job.subjobs.items[1].status = "running"
    /\ Len(calls) = 1
    /\ Len(AllFiles) > 0

(***************************************************************************)
(* C9: in delete_lfns, replicate_to_cern, resubmit_failed and reset_failed *)
(* a delegated call that raises ends the batch with that exception: the    *)
(* call has been made on every eligible unit before the failing one, in    *)
(* iteration order, and on none after it.                                  *)
(***************************************************************************)
\* the objects the batch of the invocation is due on, in iteration order
Eligible ==
    CASE op.name = "delete_lfns" ->
            Map(LAMBDA x : x.df.namePattern, SelectSeq(AllFiles, Removable))
      [] op.name = "replicate_to_cern" ->
            Map(LAMBDA x : x.df.namePattern,
                SelectSeq(AllFiles, LAMBDA x : /\ x.status = "completed"
                                               /\ "CERN-USER" \notin x.df.locations))
      [] OTHER ->
            Map(SubjobRef, SelectSeq(job.subjobs.items, LAMBDA sj : sj.status = "failed"))

Batches == {"delete_lfns", "replicate_to_cern", "resubmit_failed", "reset_failed"}

C9_RaiseStopsBatch ==
    (op.name \in Batches /\ op.failAt > 0) =>
        /\ result = "raised"
        /\ exc = "BackendError"
        /\ Len(calls) = op.failAt
        /\ op.failAt <= Len(Eligible)
        /\ \A i \in DOMAIN calls : calls[i].on = Eligible[i]

C9_Witness ==
    /\ op.name = "replicate_to_cern"
    /\ op.failAt = 1
    /\ result = "raised"
    /\ Len(Eligible) = 2

(***************************************************************************)
(* C8: for a job with zero subjobs every function treats the job itself as *)
(* the single unit of work, exactly as it would treat a job with one       *)
(* subjob of the same status and output files.                             *)
(***************************************************************************)
\* the job with one subjob that has the status and output files of job
AsSingleSubjob ==
    [job EXCEPT !.subjobs = Slice(<<[id |-> job.id, status |-> job.status,
                                     outputfiles |-> job.outputfiles]>>)]

\* what the invocation op does on job j
Invoke(j) ==
    CASE op.name = "print_incomplete" -> print_incomplete(j, op.fname, op.dirs)
      [] op.name = "resubmit_failed" -> resubmit_failed(j, op.failAt, op.fname, op.dirs)
      [] op.name = "reset_failed" -> reset_failed(j, op.failAt, op.fname, op.dirs)
      [] op.name = "replicate_to_cern" -> replicate_to_cern(j, op.failAt, op.fname, op.dirs)
      [] op.name = "write_lfns" -> write_lfns(j, op.cern_only, op.fname, op.dirs)
      [] op.name = "write_access_urls" -> write_access_urls(j, op.fname, op.dirs)
      [] OTHER -> access_urls(j, op.matcher, op.fname, op.dirs)

UnitFunctions ==
    {"print_incomplete", "resubmit_failed", "reset_failed", "replicate_to_cern",
     "write_lfns", "write_access_urls", "access_urls"}

C8_JobItselfIsTheUnit ==
    (Standalone /\ op.name \in UnitFunctions) =>
        /\ exc # "AttributeError"
        /\ calls = Invoke(AsSingleSubjob).calls
        /\ stdout = Invoke(AsSingleSubjob).stdout
        /\ result = Invoke(AsSingleSubjob).result
        /\ fname = Invoke(AsSingleSubjob).fname
        /\ retval = Invoke(AsSingleSubjob).retval

(***************************************************************************)
(* C5: write_lfns(job, fname, cern_only=True) replaces the content of      *)
(* fname with one newline-terminated line per output file of a completed   *)
(* unit located at CERN-USER, the line being the file's LFN, in            *)
(* subjob-then-file order; with cern_only=False every output file of every *)
(* completed unit yields one line.                                         *)
(***************************************************************************)
\* the lines of the files of s that are due, one after the other
RECURSIVE LfnLines(_, _)
LfnLines(s, cern_only) ==
    IF Len(s) = 0 THEN <<>>
    ELSE (IF /\ Head(s).status = "completed"
             /\ ("CERN-USER" \in Head(s).df.locations \/ ~cern_only)
          THEN Head(s).df.lfn \o <<NL>> ELSE <<>>)
         \o LfnLines(Tail(s), cern_only)

C5_WriteLfns ==
    op.name = "write_lfns" =>
        /\ result = "returned"
        /\ fname = LfnLines(AllFiles, op.cern_only)

\* the same, for the jobs that have subjobs
C5_WithSubjobs ==
    (op.name = "write_lfns" /\ ~Standalone) =>
        /\ result = "returned"
        /\ fname = LfnLines(AllFiles, op.cern_only)

(***************************************************************************)
(* C6: access_urls(job, matcher) returns, in iteration order, the access   *)
(* URL of exactly the output files of completed units that satisfy matcher *)
(* and whose URL can be obtained; a file whose accessURL raises KeyError   *)
(* is left out and the function returns normally.                          *)
(***************************************************************************)
Accepted(matcher, df) ==
    \/ matcher = "diracfile_root_matcher" /\ df.namePattern[Len(df.namePattern)] = ".root"
    \/ matcher = "txt_matcher" /\ df.namePattern[Len(df.namePattern)] = ".txt"
    \/ matcher = "None"

RECURSIVE UrlsOf(_, _)
UrlsOf(s, matcher) ==
    IF Len(s) = 0 THEN <<>>
    ELSE (IF /\ Head(s).status = "completed"
             /\ Accepted(matcher, Head(s).df)
             /\ Len(Head(s).df.pfn) > 0
          THEN <<<<Head(s).df.pfn>>>> ELSE <<>>)
         \o UrlsOf(Tail(s), matcher)

C6_AccessUrls ==
    op.name = "access_urls" =>
        /\ result = "returned"
        /\ retval = UrlsOf(AllFiles, op.matcher)

\* the same, for the jobs that have subjobs
C6_WithSubjobs ==
    (op.name = "access_urls" /\ ~Standalone) =>
        /\ result = "returned"
        /\ retval = UrlsOf(AllFiles, op.matcher)

(***************************************************************************)
(* Vocabulary of the download properties.                                  *)
(***************************************************************************)
\* the destination directory path/job.id/jid of unit jid
LocalOf(jid) == Path \o <<"/", Str(job.id), "/", Str(jid)>>

\* the file is due for download under the invocation's matcher
Wanted(x) ==
    /\ x.status = "completed"
    /\ Len(x.df.lfn) > 0
    /\ Accepted(op.matcher, x.df)

\* the get calls of the invocation on the file x into its unit's directory
GetsOf(x) ==
    {i \in DOMAIN calls : /\ calls[i].op = "get"
                          /\ calls[i].on = x.df.namePattern
                          /\ Dest(calls[i]) = LocalOf(x.jid)}

(***************************************************************************)
(* C1: download_lfns started with no destination directory present fetches *)
(* exactly once every output file of a completed unit that has an LFN and  *)
(* satisfies matcher, into path/job.id/subjob.id, and fetches no other     *)
(* file; a completed subjob with two such files has both fetched.          *)
(***************************************************************************)
C1_FetchesEveryFile ==
    (op.name = "download_lfns" /\ op.dirs = {} /\ result = "returned") =>
        /\ \A k \in DOMAIN AllFiles :
              Cardinality(GetsOf(AllFiles[k])) = IF Wanted(AllFiles[k]) THEN 1 ELSE 0
        /\ \A i \in DOMAIN calls : \E k \in DOMAIN AllFiles : i \in GetsOf(AllFiles[k])

\* what the code does instead: the first wanted file of each unit only
C1_FirstFilePerUnit ==
    (op.name = "download_lfns" /\ op.dirs = {} /\ result = "returned") =>
        /\ \A k \in DOMAIN AllFiles :
              Cardinality(GetsOf(AllFiles[k])) =
                  IF /\ Wanted(AllFiles[k])
                     /\ \A n \in 1..(k - 1) :
                           AllFiles[n].jid = AllFiles[k].jid => ~Wanted(AllFiles[n])
                  THEN 1 ELSE 0
        /\ \A i \in DOMAIN calls : \E k \in DOMAIN AllFiles : i \in GetsOf(AllFiles[k])

(***************************************************************************)
(* C2: an invocation of download_lfns skips every subjob whose destination *)
(* directory exists: it fetches none of its files and raises nothing for   *)
(* it, and still processes the other subjobs; once the directory of a      *)
(* subjob is deleted, the next invocation fetches that subjob again.       *)
(***************************************************************************)
\* unit jid has a file that is due
HasWanted(jid) == \E k \in DOMAIN AllFiles : AllFiles[k].jid = jid /\ Wanted(AllFiles[k])

UnitIds == {WorkUnits[u].id : u \in DOMAIN WorkUnits}

C2_SkipsExistingDirectory ==
    op.name = "download_lfns" =>
        /\ \A i \in DOMAIN calls : Dest(calls[i]) \notin op.dirs
        /\ op.failAt = 0 => result = "returned"
        /\ result = "returned" =>
              \A jid \in UnitIds :
                  (HasWanted(jid) /\ LocalOf(jid) \notin op.dirs) =>
                      \E i \in DOMAIN calls : Dest(calls[i]) = LocalOf(jid)

C2_Witness ==
    /\ op.name = "download_lfns"
    /\ result = "returned"
    /\ \E a, b \in UnitIds :
          /\ HasWanted(a) /\ LocalOf(a) \in op.dirs
          /\ HasWanted(b) /\ LocalOf(b) \notin op.dirs
          /\ \E i \in DOMAIN calls : Dest(calls[i]) = LocalOf(b)

====
